---- MODULE Spec2Model ----
(***************************************************************************)
(* Model of cmdapp/src/config.rs: Config::from_args (the command line is   *)
(* parsed into matches, then one block per argument id parses, validates   *)
(* and stores the value, panicking on the first rejected one),             *)
(* Config::from_preset, Config::default and Config::into_converter_config. *)
(*                                                                         *)
(* Strings are TLA+ strings handled character by character, so that        *)
(* trim, to_ascii_lowercase and the numeric parsers are computed as the    *)
(* Rust standard library computes them.  An f64 is a record                *)
(* [kind, c]: kind "num" with c the value in hundredths, or "nan",         *)
(* "inf", "ninf".  Option<T> is <<>> (None) or <<v>> (Some(v)).            *)
(***************************************************************************)
EXTENDS Integers, Sequences, FiniteSets, TLC

VARIABLES argv, m, pc, config, evaluated, err, ret, converter

vars == <<argv, m, pc, config, evaluated, err, ret, converter>>

(***************************************************************************)
(* Option                                                                  *)
(***************************************************************************)
None == <<>>

Some(v) == <<v>>

is_some(o) == o # None

unwrap(o) == o[1]

(***************************************************************************)
(* str: characters, trim, to_ascii_lowercase                               *)
(***************************************************************************)
Ch(s, i) == SubSeq(s, i, i)

Tail1(s) == SubSeq(s, 2, Len(s))

UPPER == "ABCDEFGHIJKLMNOPQRSTUVWXYZ"

LOWER == "abcdefghijklmnopqrstuvwxyz"

DIGITS == "0123456789"

IndexIn(c, alphabet) ==
    IF \E i \in 1..Len(alphabet) : Ch(alphabet, i) = c
    THEN CHOOSE i \in 1..Len(alphabet) : Ch(alphabet, i) = c
    ELSE 0

char_to_ascii_lowercase(c) ==
    LET i == IndexIn(c, UPPER) IN IF i = 0 THEN c ELSE Ch(LOWER, i)

RECURSIVE to_ascii_lowercase(_)
to_ascii_lowercase(s) ==
    IF Len(s) = 0 THEN ""
    ELSE char_to_ascii_lowercase(Ch(s, 1)) \o to_ascii_lowercase(Tail1(s))

is_whitespace(c) == c = " " \/ c = "\t" \/ c = "\n"

RECURSIVE trim_start(_)
trim_start(s) ==
    IF Len(s) > 0 /\ is_whitespace(Ch(s, 1)) THEN trim_start(Tail1(s)) ELSE s

RECURSIVE trim_end(_)
trim_end(s) ==
    IF Len(s) > 0 /\ is_whitespace(Ch(s, Len(s)))
    THEN trim_end(SubSeq(s, 1, Len(s) - 1))
    ELSE s

trim(s) == trim_end(trim_start(s))

is_digit(c) == IndexIn(c, DIGITS) # 0

to_digit(c) == IndexIn(c, DIGITS) - 1

RECURSIVE all_digits(_)
all_digits(s) == Len(s) = 0 \/ (is_digit(Ch(s, 1)) /\ all_digits(Tail1(s)))

(***************************************************************************)
(* Result                                                                  *)
(***************************************************************************)
Ok(v) == [ok |-> TRUE, val |-> v]

Err(e) == [ok |-> FALSE, val |-> e]

(***************************************************************************)
(* <i32 / usize / u32 as FromStr>::from_str: an optional sign (only "+"    *)
(* for the unsigned types), then at least one digit and nothing but        *)
(* digits, accumulated with checked arithmetic.  I32_MAX and I32_MIN are   *)
(* the limits of i32.  The limits of usize and u32 (2^64-1, 2^32-1) lie    *)
(* beyond the integers of the checker, so their overflow branch is not     *)
(* computed: the input sets hold tokens of at most four digits.            *)
(***************************************************************************)
I32_MAX == 2147483647

I32_MIN == (-2147483647) - 1

RECURSIVE accumulate_pos(_, _, _)
accumulate_pos(digits, acc, checked) ==
    IF Len(digits) = 0 THEN Ok(acc)
    ELSE IF ~is_digit(Ch(digits, 1)) THEN Err("InvalidDigit")
    ELSE LET d == to_digit(Ch(digits, 1)) IN
         IF checked /\ acc > (I32_MAX - d) \div 10 THEN Err("PosOverflow")
         ELSE accumulate_pos(Tail1(digits), acc * 10 + d, checked)

RECURSIVE accumulate_neg(_, _)
accumulate_neg(digits, acc) ==
    IF Len(digits) = 0 THEN Ok(acc)
    ELSE IF ~is_digit(Ch(digits, 1)) THEN Err("InvalidDigit")
    ELSE LET d == to_digit(Ch(digits, 1)) IN
         IF acc < (I32_MIN + d + 9) \div 10 THEN Err("NegOverflow")
         ELSE accumulate_neg(Tail1(digits), acc * 10 - d)

from_str_radix(src, is_signed_ty) ==
    IF Len(src) = 0 THEN Err("Empty")
    ELSE IF Len(src) = 1 /\ (src = "+" \/ src = "-") THEN Err("InvalidDigit")
    ELSE IF Ch(src, 1) = "+" THEN accumulate_pos(Tail1(src), 0, is_signed_ty)
    ELSE IF Ch(src, 1) = "-" /\ is_signed_ty THEN accumulate_neg(Tail1(src), 0)
    ELSE accumulate_pos(src, 0, is_signed_ty)

parse_i32(s) == from_str_radix(s, TRUE)

parse_usize(s) == from_str_radix(s, FALSE)

parse_u32(s) == from_str_radix(s, FALSE)

(***************************************************************************)
(* <f64 as FromStr>::from_str: an optional sign, then either a decimal     *)
(* number (digits, optionally "." and digits, at least one digit in all)   *)
(* or, in any letter case, "nan", "inf" or "infinity".  Values are kept    *)
(* in hundredths; the input sets hold no exponent and at most two          *)
(* fractional digits.                                                      *)
(***************************************************************************)
F64(c) == [kind |-> "num", c |-> c]

NAN == [kind |-> "nan", c |-> 0]

INFINITY == [kind |-> "inf", c |-> 0]

NEG_INFINITY == [kind |-> "ninf", c |-> 0]

f64_neg(x) ==
    CASE x.kind = "num" -> F64(0 - x.c)
      [] x.kind = "inf" -> NEG_INFINITY
      [] x.kind = "ninf" -> INFINITY
      [] OTHER -> NAN

\* IEEE 754 comparison: every comparison with NaN is false
f64_lt(a, b) ==
    /\ a.kind # "nan"
    /\ b.kind # "nan"
    /\ \/ a.kind = "ninf" /\ b.kind # "ninf"
       \/ a.kind = "num" /\ b.kind = "inf"
       \/ a.kind = "num" /\ b.kind = "num" /\ a.c < b.c

f64_gt(a, b) == f64_lt(b, a)

PointAt(s) == IndexIn(".", s)

frac_hundredths(f) ==
    IF Len(f) = 0 THEN 0
    ELSE IF Len(f) = 1 THEN 10 * to_digit(Ch(f, 1))
    ELSE 10 * to_digit(Ch(f, 1)) + to_digit(Ch(f, 2))

parse_number(s) ==
    LET p == PointAt(s)
        ip == IF p = 0 THEN s ELSE SubSeq(s, 1, p - 1)
        fp == IF p = 0 THEN "" ELSE SubSeq(s, p + 1, Len(s))
    IN IF Len(ip) + Len(fp) = 0 \/ ~all_digits(ip) \/ ~all_digits(fp)
       THEN Err("Invalid")
       ELSE Ok(F64(accumulate_pos(ip, 0, FALSE).val * 100 + frac_hundredths(fp)))

parse_inf_nan(s) ==
    LET l == to_ascii_lowercase(s) IN
    IF l = "nan" THEN Ok(NAN)
    ELSE IF l = "inf" \/ l = "infinity" THEN Ok(INFINITY)
    ELSE Err("Invalid")

parse_f64(s) ==
    IF Len(s) = 0 THEN Err("Empty")
    ELSE LET negative == Ch(s, 1) = "-"
             rest == IF Ch(s, 1) = "-" \/ Ch(s, 1) = "+" THEN Tail1(s) ELSE s
             num == parse_number(rest)
             r == IF num.ok THEN num ELSE parse_inf_nan(rest)
         IN IF ~r.ok THEN r
            ELSE IF negative THEN Ok(f64_neg(r.val)) ELSE r

(***************************************************************************)
(* PathBuf                                                                 *)
(***************************************************************************)
PathBuf_from(s) == [path |-> s]

PathBuf_default == [path |-> ""]

(***************************************************************************)
(* impl Default for Config                                                 *)
(***************************************************************************)
Config_default ==
    [ input_path |-> PathBuf_default,
      output_path |-> PathBuf_default,
      color_mode |-> "Color",
      hierarchical |-> "Stacked",
      mode |-> "Spline",
      filter_speckle |-> 4,
      color_precision |-> 6,
      layer_difference |-> 16,
      corner_threshold |-> 60,
      length_threshold |-> F64(400),
      splice_threshold |-> 45,
      max_iterations |-> 10,
      path_precision |-> Some(8) ]

(***************************************************************************)
(* FromStr for ColorMode, Hierarchical, Preset; path_simplify_mode_from_str*)
(***************************************************************************)
ColorMode_from_str(s) ==
    LET l == to_ascii_lowercase(s) IN
    IF l = "color" THEN Ok("Color")
    ELSE IF l = "binary" THEN Ok("Binary")
    ELSE Err("unknown ColorMode")

Hierarchical_from_str(s) ==
    LET l == to_ascii_lowercase(s) IN
    IF l = "stacked" THEN Ok("Stacked")
    ELSE IF l = "cutout" THEN Ok("Cutout")
    ELSE Err("unknown Hierarchical")

Preset_from_str(s) ==
    IF s = "bw" THEN Ok("Bw")
    ELSE IF s = "poster" THEN Ok("Poster")
    ELSE IF s = "photo" THEN Ok("Photo")
    ELSE Err("unknown Preset")

\* Ok(mode), or Err for the panic of the last arm
path_simplify_mode_from_str(s) ==
    IF s = "polygon" THEN Ok("Polygon")
    ELSE IF s = "spline" THEN Ok("Spline")
    ELSE IF s = "none" THEN Ok("None")
    ELSE Err("unknown PathSimplifyMode")

\* faulty variant to test what C4 detects: the Photo bundle keeps the
\* default filter_speckle
from_preset_photo_speckle_default(preset, input_path, output_path) ==
    [ input_path |-> PathBuf_from(input_path),
      output_path |-> PathBuf_from(output_path),
      color_mode |-> IF preset = "Bw" THEN "Binary" ELSE "Color",
      hierarchical |-> "Stacked",
      filter_speckle |-> Config_default.filter_speckle,
      color_precision |-> IF preset = "Bw" THEN 6 ELSE 8,
      layer_difference |-> IF preset = "Photo" THEN 48 ELSE 16,
      mode |-> "Spline",
      corner_threshold |-> IF preset = "Photo" THEN 180 ELSE 60,
      length_threshold |-> F64(400),
      max_iterations |-> 10,
      splice_threshold |-> 45,
      path_precision |-> Some(8) ]

(***************************************************************************)
(* Config::from_preset                                                     *)
(***************************************************************************)
from_preset(preset, input_path, output_path) ==
    LET ip == PathBuf_from(input_path)
        op == PathBuf_from(output_path)
    IN CASE preset = "Bw" ->
              [ input_path |-> ip, output_path |-> op,
                color_mode |-> "Binary", hierarchical |-> "Stacked",
                filter_speckle |-> 4, color_precision |-> 6,
                layer_difference |-> 16, mode |-> "Spline",
                corner_threshold |-> 60, length_threshold |-> F64(400),
                max_iterations |-> 10, splice_threshold |-> 45,
                path_precision |-> Some(8) ]
         [] preset = "Poster" ->
              [ input_path |-> ip, output_path |-> op,
                color_mode |-> "Color", hierarchical |-> "Stacked",
                filter_speckle |-> 4, color_precision |-> 8,
                layer_difference |-> 16, mode |-> "Spline",
                corner_threshold |-> 60, length_threshold |-> F64(400),
                max_iterations |-> 10, splice_threshold |-> 45,
                path_precision |-> Some(8) ]
         [] preset = "Photo" ->
              [ input_path |-> ip, output_path |-> op,
                color_mode |-> "Color", hierarchical |-> "Stacked",
                filter_speckle |-> 10, color_precision |-> 8,
                layer_difference |-> 48, mode |-> "Spline",
                corner_threshold |-> 180, length_threshold |-> F64(400),
                max_iterations |-> 10, splice_threshold |-> 45,
                path_precision |-> Some(8) ]

(***************************************************************************)
(* Config::into_converter_config and deg2rad.  An angle in radians is      *)
(* the fraction of pi it amounts to, <<numerator, denominator>> in lowest  *)
(* terms (deg / 180 * PI).  usize is 64 bits wide: a product of two        *)
(* usize wraps in release builds and panics in debug builds exactly when   *)
(* it reaches 2^64; an i32 subtraction likewise outside [I32_MIN, I32_MAX].*)
(***************************************************************************)
RECURSIVE gcd(_, _)
gcd(a, b) == IF b = 0 THEN a ELSE gcd(b, a % b)

deg2rad(deg) ==
    LET a == IF deg < 0 THEN 0 - deg ELSE deg
        g == gcd(180, a)
    IN <<deg \div g, 180 \div g>>

\* a * a >= 2^64  iff  a >= 2^32  iff  a \div 2^16 >= 2^16
usize_square_overflows(a) == a \div 65536 >= 65536

\* 8 - a > I32_MAX  iff  a < 8 - I32_MAX
i32_sub_from_8_overflows(a) == a < 8 - I32_MAX

\* faulty variant to test what C5 detects: the speckle size is not squared
into_converter_config_not_squared(self) ==
    [ input_path |-> self.input_path,
      output_path |-> self.output_path,
      color_mode |-> self.color_mode,
      hierarchical |-> self.hierarchical,
      filter_speckle_area |-> self.filter_speckle,
      color_precision_loss |-> 8 - self.color_precision,
      layer_difference |-> self.layer_difference,
      mode |-> self.mode,
      corner_threshold |-> deg2rad(self.corner_threshold),
      length_threshold |-> self.length_threshold,
      max_iterations |-> self.max_iterations,
      splice_threshold |-> deg2rad(self.splice_threshold),
      path_precision |-> self.path_precision,
      overflowed |-> i32_sub_from_8_overflows(self.color_precision) ]

into_converter_config(self) ==
    [ input_path |-> self.input_path,
      output_path |-> self.output_path,
      color_mode |-> self.color_mode,
      hierarchical |-> self.hierarchical,
      filter_speckle_area |-> self.filter_speckle * self.filter_speckle,
      color_precision_loss |-> 8 - self.color_precision,
      layer_difference |-> self.layer_difference,
      mode |-> self.mode,
      corner_threshold |-> deg2rad(self.corner_threshold),
      length_threshold |-> self.length_threshold,
      max_iterations |-> self.max_iterations,
      splice_threshold |-> deg2rad(self.splice_threshold),
      path_precision |-> self.path_precision,
      overflowed |-> usize_square_overflows(self.filter_speckle)
                     \/ i32_sub_from_8_overflows(self.color_precision) ]

(***************************************************************************)
(* The command line.  argv is the sequence of arguments in the order they  *)
(* were supplied, each [key, value] with key the id of the clap Arg.       *)
(***************************************************************************)
PathKeys == {"input", "output"}

OverrideKeys ==
    { "preset", "color_mode", "hierarchical", "mode", "filter_speckle",
      "color_precision", "gradient_step", "corner_threshold",
      "segment_length", "splice_threshold", "path_precision" }

ArgIds == PathKeys \cup OverrideKeys

\* the arguments declared .required(true)
RequiredIds == {"input", "output"}

\* the order of the `if let Some(value) = m.get_one(..)` blocks of from_args
CheckOrder ==
    << "preset", "color_mode", "hierarchical", "mode", "filter_speckle",
       "color_precision", "gradient_step", "corner_threshold",
       "segment_length", "splice_threshold", "path_precision" >>

Arg(k, v) == [key |-> k, value |-> v]

KeysOf(args) == {args[i].key : i \in 1..Len(args)}

\* ArgMatches::get_one::<String>(id)
get_one(matches, id) == matches[id]

\* what clap stores for an argument list: the value given for each id
matches_of(args) ==
    [id \in ArgIds |->
        IF id \in KeysOf(args)
        THEN Some((CHOOSE a \in {args[i] : i \in 1..Len(args)} : a.key = id).value)
        ELSE None]

NoMatches == [id \in ArgIds |-> None]

(***************************************************************************)
(* Range checks of from_args: TRUE when the `if` before the                *)
(* "Out of Range Error" panic is taken                                     *)
(***************************************************************************)
filter_speckle_out_of_range(value) == value < 1 \/ value > 16

color_precision_out_of_range(value) == value < 1 \/ value > 8

\* faulty variant (upper bound off by one), to test what C2 detects
gradient_step_out_of_range_off_by_one(value) == value < 0 \/ value > 256

gradient_step_out_of_range(value) == value < 0 \/ value > 255

corner_threshold_out_of_range(value) == value < 0 \/ value > 180

segment_length_out_of_range(value) ==
    f64_lt(value, F64(350)) \/ f64_gt(value, F64(1000))

splice_threshold_out_of_range(value) == value < 0 \/ value > 180

(***************************************************************************)
(* Config::from_args, one action per block                                 *)
(***************************************************************************)
\* a panic (or clap's error exit): the process ends, nothing is returned
panic(class, field, subject) ==
    /\ pc' = "aborted"
    /\ err' = Some([class |-> class, field |-> field, subject |-> subject])
    /\ UNCHANGED <<config, ret, converter>>

\* the block stored a value (or was skipped) and control reaches the next one
goto(next, cfg) ==
    /\ pc' = next
    /\ config' = Some(cfg)
    /\ UNCHANGED <<err, ret, converter>>

\* faulty variant to test what C9 detects: the paths are not required and
\* an absent one is read as the empty string
get_matches_paths_optional ==
    /\ pc = "get_matches"
    /\ m' = [id \in ArgIds |->
                IF id \in RequiredIds /\ ~is_some(matches_of(argv)[id])
                THEN Some("") ELSE matches_of(argv)[id]]
    /\ goto("preset", Config_default)
    /\ UNCHANGED <<argv, evaluated>>

\* Command::get_matches with its required arguments, Config::default(), and
\* the two .expect(..) on the paths
get_matches ==
    /\ pc = "get_matches"
    /\ m' = matches_of(argv)
    /\ IF \E id \in RequiredIds : ~is_some(get_one(matches_of(argv), id))
       THEN panic("required", "input/output", "required arguments")
       ELSE IF ~is_some(get_one(matches_of(argv), "input"))
                 \/ ~is_some(get_one(matches_of(argv), "output"))
       THEN panic("expect", "input/output", "path is required")
       ELSE goto("preset", Config_default)
    /\ UNCHANGED <<argv, evaluated>>

input_path == unwrap(get_one(m, "input"))

output_path == unwrap(get_one(m, "output"))

\* the preset block and the two path assignments that follow it
arg_preset ==
    /\ pc = "preset"
    /\ LET with_paths(c) == [c EXCEPT !.input_path = PathBuf_from(input_path),
                                      !.output_path = PathBuf_from(output_path)]
       IN IF is_some(get_one(m, "preset"))
          THEN LET value == unwrap(get_one(m, "preset"))
                   preset == Preset_from_str(value)
               IN /\ evaluated' = Append(evaluated, "preset")
                  /\ IF preset.ok
                     THEN goto("color_mode",
                               with_paths(from_preset(preset.val, input_path, output_path)))
                     ELSE panic("unwrap", "preset", preset.val)
          ELSE /\ goto("color_mode", with_paths(unwrap(config)))
               /\ UNCHANGED evaluated
    /\ UNCHANGED <<argv, m>>

arg_color_mode ==
    /\ pc = "color_mode"
    /\ IF is_some(get_one(m, "color_mode"))
       THEN LET value == unwrap(get_one(m, "color_mode"))
                r == ColorMode_from_str(
                         IF trim(value) = "bw" \/ trim(value) = "BW"
                         THEN "binary" ELSE "color")
            IN /\ evaluated' = Append(evaluated, "color_mode")
               /\ IF r.ok
                  THEN goto("hierarchical", [unwrap(config) EXCEPT !.color_mode = r.val])
                  ELSE panic("unwrap", "color_mode", r.val)
       ELSE /\ goto("hierarchical", unwrap(config))
            /\ UNCHANGED evaluated
    /\ UNCHANGED <<argv, m>>

\* faulty variant to test what C10 detects: an unknown token leaves the
\* previous value in place
arg_hierarchical_lenient ==
    /\ pc = "hierarchical"
    /\ IF is_some(get_one(m, "hierarchical"))
       THEN LET r == Hierarchical_from_str(unwrap(get_one(m, "hierarchical")))
            IN /\ evaluated' = Append(evaluated, "hierarchical")
               /\ goto("mode", IF r.ok
                               THEN [unwrap(config) EXCEPT !.hierarchical = r.val]
                               ELSE unwrap(config))
       ELSE /\ goto("mode", unwrap(config))
            /\ UNCHANGED evaluated
    /\ UNCHANGED <<argv, m>>

arg_hierarchical ==
    /\ pc = "hierarchical"
    /\ IF is_some(get_one(m, "hierarchical"))
       THEN LET value == unwrap(get_one(m, "hierarchical"))
                r == Hierarchical_from_str(value)
            IN /\ evaluated' = Append(evaluated, "hierarchical")
               /\ IF r.ok
                  THEN goto("mode", [unwrap(config) EXCEPT !.hierarchical = r.val])
                  ELSE panic("unwrap", "hierarchical", r.val)
       ELSE /\ goto("mode", unwrap(config))
            /\ UNCHANGED evaluated
    /\ UNCHANGED <<argv, m>>

arg_mode ==
    /\ pc = "mode"
    /\ IF is_some(get_one(m, "mode"))
       THEN LET value == trim(unwrap(get_one(m, "mode")))
                name == IF value = "pixel" THEN Ok("none")
                        ELSE IF value = "polygon" THEN Ok("polygon")
                        ELSE IF value = "spline" THEN Ok("spline")
                        ELSE Err("Curve fitting mode")
                r == IF name.ok THEN path_simplify_mode_from_str(name.val) ELSE name
            IN /\ evaluated' = Append(evaluated, "mode")
               /\ IF ~name.ok THEN panic("Parser Error", "mode", "Curve fitting mode")
                  ELSE IF ~r.ok THEN panic("panic", "mode", r.val)
                  ELSE goto("filter_speckle", [unwrap(config) EXCEPT !.mode = r.val])
       ELSE /\ goto("filter_speckle", unwrap(config))
            /\ UNCHANGED evaluated
    /\ UNCHANGED <<argv, m>>

arg_filter_speckle ==
    /\ pc = "filter_speckle"
    /\ IF is_some(get_one(m, "filter_speckle"))
       THEN LET r == parse_usize(trim(unwrap(get_one(m, "filter_speckle"))))
            IN /\ evaluated' = Append(evaluated, "filter_speckle")
               /\ IF r.ok
                  THEN IF filter_speckle_out_of_range(r.val)
                       THEN panic("Out of Range Error", "filter_speckle", "Filter speckle")
                       ELSE goto("color_precision",
                                 [unwrap(config) EXCEPT !.filter_speckle = r.val])
                  ELSE panic("Parser Error", "filter_speckle", "Filter speckle")
       ELSE /\ goto("color_precision", unwrap(config))
            /\ UNCHANGED evaluated
    /\ UNCHANGED <<argv, m>>

\* faulty variant to test what C3 detects: the value is validated but the
\* preset's or default's value is kept
arg_color_precision_not_stored ==
    /\ pc = "color_precision"
    /\ IF is_some(get_one(m, "color_precision"))
       THEN LET r == parse_i32(trim(unwrap(get_one(m, "color_precision"))))
            IN /\ evaluated' = Append(evaluated, "color_precision")
               /\ IF r.ok
                  THEN IF color_precision_out_of_range(r.val)
                       THEN panic("Out of Range Error", "color_precision", "Color precision")
                       ELSE goto("gradient_step", unwrap(config))
                  ELSE panic("Parser Error", "color_precision", "Color precision")
       ELSE /\ goto("gradient_step", unwrap(config))
            /\ UNCHANGED evaluated
    /\ UNCHANGED <<argv, m>>

arg_color_precision ==
    /\ pc = "color_precision"
    /\ IF is_some(get_one(m, "color_precision"))
       THEN LET r == parse_i32(trim(unwrap(get_one(m, "color_precision"))))
            IN /\ evaluated' = Append(evaluated, "color_precision")
               /\ IF r.ok
                  THEN IF color_precision_out_of_range(r.val)
                       THEN panic("Out of Range Error", "color_precision", "Color precision")
                       ELSE goto("gradient_step",
                                 [unwrap(config) EXCEPT !.color_precision = r.val])
                  ELSE panic("Parser Error", "color_precision", "Color precision")
       ELSE /\ goto("gradient_step", unwrap(config))
            /\ UNCHANGED evaluated
    /\ UNCHANGED <<argv, m>>

arg_gradient_step ==
    /\ pc = "gradient_step"
    /\ IF is_some(get_one(m, "gradient_step"))
       THEN LET r == parse_i32(trim(unwrap(get_one(m, "gradient_step"))))
            IN /\ evaluated' = Append(evaluated, "gradient_step")
               /\ IF r.ok
                  THEN IF gradient_step_out_of_range(r.val)
                       THEN panic("Out of Range Error", "gradient_step", "Gradient step")
                       ELSE goto("corner_threshold",
                                 [unwrap(config) EXCEPT !.layer_difference = r.val])
                  ELSE panic("Parser Error", "gradient_step", "Gradient step")
       ELSE /\ goto("corner_threshold", unwrap(config))
            /\ UNCHANGED evaluated
    /\ UNCHANGED <<argv, m>>

arg_corner_threshold ==
    /\ pc = "corner_threshold"
    /\ IF is_some(get_one(m, "corner_threshold"))
       THEN LET r == parse_i32(trim(unwrap(get_one(m, "corner_threshold"))))
            IN /\ evaluated' = Append(evaluated, "corner_threshold")
               /\ IF r.ok
                  THEN IF corner_threshold_out_of_range(r.val)
                       THEN panic("Out of Range Error", "corner_threshold", "Corner threshold")
                       ELSE goto("segment_length",
                                 [unwrap(config) EXCEPT !.corner_threshold = r.val])
                  ELSE panic("Parser Error", "corner_threshold", "Corner threshold")
       ELSE /\ goto("segment_length", unwrap(config))
            /\ UNCHANGED evaluated
    /\ UNCHANGED <<argv, m>>

arg_segment_length ==
    /\ pc = "segment_length"
    /\ IF is_some(get_one(m, "segment_length"))
       THEN LET r == parse_f64(trim(unwrap(get_one(m, "segment_length"))))
            IN /\ evaluated' = Append(evaluated, "segment_length")
               /\ IF r.ok
                  THEN IF segment_length_out_of_range(r.val)
                       THEN panic("Out of Range Error", "segment_length", "Segment length")
                       ELSE goto("splice_threshold",
                                 [unwrap(config) EXCEPT !.length_threshold = r.val])
                  ELSE panic("Parser Error", "segment_length", "Segment length")
       ELSE /\ goto("splice_threshold", unwrap(config))
            /\ UNCHANGED evaluated
    /\ UNCHANGED <<argv, m>>

\* both messages of this block say "Segment length", as in the source
arg_splice_threshold ==
    /\ pc = "splice_threshold"
    /\ IF is_some(get_one(m, "splice_threshold"))
       THEN LET r == parse_i32(trim(unwrap(get_one(m, "splice_threshold"))))
            IN /\ evaluated' = Append(evaluated, "splice_threshold")
               /\ IF r.ok
                  THEN IF splice_threshold_out_of_range(r.val)
                       THEN panic("Out of Range Error", "splice_threshold", "Segment length")
                       ELSE goto("path_precision",
                                 [unwrap(config) EXCEPT !.splice_threshold = r.val])
                  ELSE panic("Parser Error", "splice_threshold", "Segment length")
       ELSE /\ goto("path_precision", unwrap(config))
            /\ UNCHANGED evaluated
    /\ UNCHANGED <<argv, m>>

arg_path_precision ==
    /\ pc = "path_precision"
    /\ IF is_some(get_one(m, "path_precision"))
       THEN LET r == parse_u32(trim(unwrap(get_one(m, "path_precision"))))
            IN /\ evaluated' = Append(evaluated, "path_precision")
               /\ IF r.ok
                  THEN goto("return", [unwrap(config) EXCEPT !.path_precision = Some(r.val)])
                  ELSE panic("Parser Error", "path_precision", "Path precision")
       ELSE /\ goto("return", unwrap(config))
            /\ UNCHANGED evaluated
    /\ UNCHANGED <<argv, m>>

\* the final expression `config` of from_args
from_args_return ==
    /\ pc = "return"
    /\ ret' = config
    /\ pc' = "done"
    /\ UNCHANGED <<argv, m, config, evaluated, err, converter>>

\* the returned Config is consumed by into_converter_config
derive ==
    /\ pc = "done"
    /\ converter' = Some(into_converter_config(unwrap(ret)))
    /\ pc' = "derived"
    /\ UNCHANGED <<argv, m, config, evaluated, err, ret>>

Next ==
    \/ get_matches
    \/ arg_preset
    \/ arg_color_mode
    \/ arg_hierarchical
    \/ arg_mode
    \/ arg_filter_speckle
    \/ arg_color_precision
    \/ arg_gradient_step
    \/ arg_corner_threshold
    \/ arg_segment_length
    \/ arg_splice_threshold
    \/ arg_path_precision
    \/ from_args_return
    \/ derive

(***************************************************************************)
(* Command lines                                                           *)
(***************************************************************************)
\* the most override arguments on one command line of Spec
MaxArgs == 2

TokensFor(k) ==
    CASE k = "preset" -> {"bw", "poster", "photo", "foo"}
      [] k = "color_mode" -> {"bw", "Bw", "color"}
      [] k = "hierarchical" -> {"cutout", "foo"}
      [] k = "mode" -> {"pixel", "polygon", "SPLINE"}
      [] k = "filter_speckle" -> {"16", "0", "-1", "x"}
      [] k = "color_precision" -> {"3", "9", "x"}
      [] k = "gradient_step" -> {"255", "-1"}
      [] k = "corner_threshold" -> {"0", "181", "1x"}
      [] k = "segment_length" -> {"3.5", "NaN", "10.01"}
      [] k = "splice_threshold" -> {"180", "999", "abc"}
      [] k = "path_precision" -> {"2", "-1"}

RichTokensFor(k) ==
    CASE k = "color_mode" ->
            {"bw", "BW", "Bw", "bW", " bw ", "color", "COLOR", "binary", "colour", ""}
      [] k = "hierarchical" ->
            {"stacked", "STACKED", "Stacked", "cutout", "CutOut", "CUTOUT",
             "stack", "foo", ""}
      [] k = "mode" ->
            {"pixel", "polygon", "spline", " spline ", "Pixel", "POLYGON",
             "SPLINE", "none", "foo"}
      [] k = "filter_speckle" ->
            {"1", "16", "0", "17", "4", " 8 ", "+2", "-1", "foo", "1.5", ""}
      [] k = "color_precision" ->
            {"1", "8", "0", "9", "5", "-3", "foo", "2147483648"}
      [] k = "gradient_step" ->
            {"0", "255", "-1", "256", "48", "foo", "+7"}
      [] k = "corner_threshold" ->
            {"0", "180", "-1", "181", "90", "foo", "6 0"}
      [] k = "segment_length" ->
            {"3.5", "10.0", "10", "3.49", "10.01", "4", "5.25", ".5", "7.",
             "NaN", "nan", "inf", "-inf", "infinity", "foo", "-4.0", "."}
      [] k = "splice_threshold" ->
            {"0", "180", "-1", "181", "45", "foo", "-"}
      [] k = "path_precision" ->
            {"0", "3", "-1", "foo", "2.5"}

InputToken == "in.png"

OutputToken == "out.svg"

PathArgs ==
    { <<>>, <<Arg("input", InputToken)>>, <<Arg("output", OutputToken)>>,
      <<Arg("input", InputToken), Arg("output", OutputToken)>> }

\* every override argument of the input set
KeyTokens == UNION { {Arg(k, t) : t \in TokensFor(k)} : k \in OverrideKeys }

DistinctKeys(args) == \A i, j \in 1..Len(args) : i # j => args[i].key # args[j].key

\* the argument lists of n override arguments with distinct ids, in every order
RECURSIVE ArgSeqs(_)
ArgSeqs(n) ==
    IF n = 0 THEN {<<>>}
    ELSE {x \in {Append(s, a) : s \in ArgSeqs(n - 1), a \in KeyTokens} : DistinctKeys(x)}

OverrideLists(n) == UNION {ArgSeqs(i) : i \in 0..n}

\* an optional preset followed by at most one other override
PresetArgs == {<<>>} \cup {<<Arg("preset", t)>> : t \in {"bw", "poster", "photo", "Photo"}}

SingleArgs ==
    {<<>>} \cup UNION { {<<Arg(k, t)>> : t \in RichTokensFor(k)}
                        : k \in OverrideKeys \ {"preset"} }

SingleLists == {q \o s : q \in PresetArgs, s \in SingleArgs}

InitWith(paths, overrides) ==
    /\ \E p \in paths : \E s \in overrides : argv = p \o s
    /\ m = NoMatches
    /\ pc = "get_matches"
    /\ config = None
    /\ evaluated = <<>>
    /\ err = None
    /\ ret = None
    /\ converter = None

Init == InitWith(PathArgs, OverrideLists(MaxArgs))

InitSingle == InitWith(PathArgs, SingleLists)

Spec == Init /\ [][Next]_vars

SpecSingle == InitSingle /\ [][Next]_vars

(***************************************************************************)
(* Vocabulary of the properties                                            *)
(***************************************************************************)
PcOrder == <<"get_matches">> \o CheckOrder \o <<"return", "done", "derived">>

Pos(p) == CHOOSE i \in 1..Len(PcOrder) : PcOrder[i] = p

\* the run has left the block of argument k: it went on, or it ended there
Past(k) == pc = "aborted" \/ Pos(pc) > Pos(k)

Returned == pc \in {"done", "derived"}

Supplied(k) == k \in KeysOf(argv)

TokenOf(k) == unwrap(matches_of(argv)[k])

PathsSupplied == Supplied("input") /\ Supplied("output")

\* the only override on the command line is k (input and output are given)
OnlyOverride(k) == KeysOf(argv) = PathKeys \cup {k}

AbortedAt(k) == pc = "aborted" /\ unwrap(err).field = k

FieldOf(c, k) ==
    CASE k = "color_mode" -> c.color_mode
      [] k = "hierarchical" -> c.hierarchical
      [] k = "mode" -> c.mode
      [] k = "filter_speckle" -> c.filter_speckle
      [] k = "color_precision" -> c.color_precision
      [] k = "gradient_step" -> c.layer_difference
      [] k = "corner_threshold" -> c.corner_threshold
      [] k = "segment_length" -> c.length_threshold
      [] k = "splice_threshold" -> c.splice_threshold
      [] k = "path_precision" -> c.path_precision

IntegerKeys ==
    {"filter_speckle", "color_precision", "gradient_step", "corner_threshold",
     "splice_threshold"}

RangedKeys == IntegerKeys \cup {"segment_length"}

\* the documented closed ranges (segment_length in hundredths)
RangeLo(k) ==
    CASE k = "filter_speckle" -> 1
      [] k = "color_precision" -> 1
      [] k = "gradient_step" -> 0
      [] k = "corner_threshold" -> 0
      [] k = "segment_length" -> 350
      [] k = "splice_threshold" -> 0

RangeHi(k) ==
    CASE k = "filter_speckle" -> 16
      [] k = "color_precision" -> 8
      [] k = "gradient_step" -> 255
      [] k = "corner_threshold" -> 180
      [] k = "segment_length" -> 1000
      [] k = "splice_threshold" -> 180

\* the value v of field k is a number of the documented closed range
InDocumentedRange(k, v) ==
    IF k = "segment_length"
    THEN v.kind = "num" /\ RangeLo(k) <= v.c /\ v.c <= RangeHi(k)
    ELSE RangeLo(k) <= v /\ v <= RangeHi(k)

(***************************************************************************)
(* C1: every numeric field of a Config returned by from_args lies in its   *)
(* documented closed range: filter_speckle [1,16], color_precision [1,8],  *)
(* layer_difference [0,255], corner_threshold [0,180], length_threshold    *)
(* [3.5,10.0], splice_threshold [0,180], whatever preset and override      *)
(* strings were given, not-a-number tokens included.                       *)
(***************************************************************************)
C1_NumericFieldsInRange ==
    Returned => \A k \in RangedKeys : InDocumentedRange(k, FieldOf(unwrap(ret), k))

(***************************************************************************)
(* C2: when a range-checked field is the only override, both boundary      *)
(* values of its range are accepted and stored exactly, and the values     *)
(* immediately outside both boundaries are rejected.                       *)
(***************************************************************************)
\* the boundary tokens of each field with the value each denotes
BoundaryIn(k) ==
    CASE k = "filter_speckle" -> {<<"1", 1>>, <<"16", 16>>}
      [] k = "color_precision" -> {<<"1", 1>>, <<"8", 8>>}
      [] k = "gradient_step" -> {<<"0", 0>>, <<"255", 255>>}
      [] k = "corner_threshold" -> {<<"0", 0>>, <<"180", 180>>}
      [] k = "segment_length" -> {<<"3.5", F64(350)>>, <<"10.0", F64(1000)>>}
      [] k = "splice_threshold" -> {<<"0", 0>>, <<"180", 180>>}

\* the tokens immediately outside
BoundaryOut(k) ==
    CASE k = "filter_speckle" -> {"0", "17"}
      [] k = "color_precision" -> {"0", "9"}
      [] k = "gradient_step" -> {"-1", "256"}
      [] k = "corner_threshold" -> {"-1", "181"}
      [] k = "segment_length" -> {"3.49", "10.01"}
      [] k = "splice_threshold" -> {"-1", "181"}

C2_BoundariesAcceptedNeighboursRejected ==
    \A k \in RangedKeys :
        OnlyOverride(k) =>
            /\ \A b \in BoundaryIn(k) :
                   TokenOf(k) = b[1] =>
                       /\ pc # "aborted"
                       /\ Past(k) => FieldOf(unwrap(config), k) = b[2]
                       /\ Returned => FieldOf(unwrap(ret), k) = b[2]
            /\ TokenOf(k) \in BoundaryOut(k) =>
                   /\ ~Returned
                   /\ Past(k) => AbortedAt(k) /\ ret = None

C2_Witness ==
    /\ Returned
    /\ OnlyOverride("filter_speckle")
    /\ TokenOf("filter_speckle") = "16"
    /\ unwrap(ret).filter_speckle = 16

(***************************************************************************)
(* C3: override order is Default < Preset < Explicit.  In every returned   *)
(* Config a field with a valid explicit override holds the explicit        *)
(* value whichever preset is selected; a field without one holds the       *)
(* preset's value if a preset is given, else the default.  With preset     *)
(* photo and an explicit color_precision p, color_precision_loss = 8 - p.  *)
(***************************************************************************)
\* the defaults and the preset bundles as documented
DocumentedDefault(k) ==
    CASE k = "color_mode" -> "Color"
      [] k = "hierarchical" -> "Stacked"
      [] k = "mode" -> "Spline"
      [] k = "filter_speckle" -> 4
      [] k = "color_precision" -> 6
      [] k = "gradient_step" -> 16
      [] k = "corner_threshold" -> 60
      [] k = "segment_length" -> F64(400)
      [] k = "splice_threshold" -> 45
      [] k = "path_precision" -> Some(8)

DocumentedBundle(p, k) ==
    CASE k = "color_mode" -> IF p = "bw" THEN "Binary" ELSE "Color"
      [] k = "filter_speckle" -> IF p = "photo" THEN 10 ELSE 4
      [] k = "color_precision" -> IF p = "bw" THEN 6 ELSE 8
      [] k = "gradient_step" -> IF p = "photo" THEN 48 ELSE 16
      [] k = "corner_threshold" -> IF p = "photo" THEN 180 ELSE 60
      [] k = "segment_length" -> F64(400)
      [] k = "splice_threshold" -> 45
      [] k = "hierarchical" -> "Stacked"
      [] k = "mode" -> "Spline"
      [] k = "path_precision" -> Some(8)

\* the value an accepted token of field k stands for
ExplicitValue(k, t) ==
    CASE k = "color_mode" -> IF trim(t) \in {"bw", "BW"} THEN "Binary" ELSE "Color"
      [] k = "hierarchical" ->
            IF to_ascii_lowercase(t) = "stacked" THEN "Stacked" ELSE "Cutout"
      [] k = "mode" ->
            IF trim(t) = "pixel" THEN "None"
            ELSE IF trim(t) = "polygon" THEN "Polygon" ELSE "Spline"
      [] k = "filter_speckle" -> parse_usize(trim(t)).val
      [] k = "segment_length" -> parse_f64(trim(t)).val
      [] k = "path_precision" -> Some(parse_u32(trim(t)).val)
      [] OTHER -> parse_i32(trim(t)).val

\* a returned Config's override of k is valid unless it is a ranged field
\* whose value is no number of the range
ValidOverride(k) ==
    k \in RangedKeys => InDocumentedRange(k, ExplicitValue(k, TokenOf(k)))

C3_DefaultPresetExplicit ==
    /\ Returned =>
           \A k \in OverrideKeys \ {"preset"} :
               IF Supplied(k)
               THEN ValidOverride(k) =>
                        FieldOf(unwrap(ret), k) = ExplicitValue(k, TokenOf(k))
               ELSE IF Supplied("preset")
               THEN FieldOf(unwrap(ret), k) = DocumentedBundle(TokenOf("preset"), k)
               ELSE FieldOf(unwrap(ret), k) = DocumentedDefault(k)
    /\ (pc = "derived" /\ Supplied("preset") /\ Supplied("color_precision")) =>
           unwrap(converter).color_precision_loss
               = 8 - parse_i32(trim(TokenOf("color_precision"))).val

C3_Witness ==
    /\ pc = "derived"
    /\ Supplied("preset") /\ TokenOf("preset") = "photo"
    /\ Supplied("color_precision") /\ TokenOf("color_precision") = "3"
    /\ unwrap(ret).color_precision = 3
    /\ unwrap(ret).filter_speckle = 10
    /\ unwrap(converter).color_precision_loss = 5

(***************************************************************************)
(* C4: a preset with no other override yields exactly that preset's        *)
(* bundle in every non-path field (Bw: Binary, 4, 6, 16, 60, 4.0, 45;      *)
(* Poster: Color, 4, 8, 16, 60, 4.0, 45; Photo: Color, 10, 8, 48, 180,     *)
(* 4.0, 45), the paths are the input and output arguments, and for bw      *)
(* derivation gives Binary, filter_speckle_area 16, color_precision_loss 2.*)
(***************************************************************************)
C4_PresetAloneIsTheBundle ==
    (OnlyOverride("preset") /\ Returned) =>
        LET p == TokenOf("preset")
            c == unwrap(ret)
        IN /\ p \in {"bw", "poster", "photo"}
           /\ \A k \in OverrideKeys \ {"preset"} : FieldOf(c, k) = DocumentedBundle(p, k)
           /\ c.max_iterations = 10
           /\ c.input_path = [path |-> TokenOf("input")]
           /\ c.output_path = [path |-> TokenOf("output")]
           /\ (pc = "derived" /\ p = "bw") =>
                  /\ unwrap(converter).color_mode = "Binary"
                  /\ unwrap(converter).filter_speckle_area = 16
                  /\ unwrap(converter).color_precision_loss = 2

C4_Witness ==
    /\ pc = "derived"
    /\ OnlyOverride("preset")
    /\ TokenOf("preset") = "bw"
    /\ unwrap(converter).filter_speckle_area = 16
    /\ unwrap(converter).color_mode = "Binary"

(***************************************************************************)
(* C5: for every Config from_args returns, into_converter_config gives     *)
(* filter_speckle_area = filter_speckle^2 in [1,256] and                   *)
(* color_precision_loss = 8 - color_precision in [0,7], copies the paths,  *)
(* color_mode, hierarchical, layer_difference, mode, length_threshold,     *)
(* max_iterations and path_precision unchanged, and does not overflow.     *)
(***************************************************************************)
C5_Derivation ==
    pc = "derived" =>
        LET c == unwrap(ret)
            e == unwrap(converter)
        IN /\ e.filter_speckle_area = c.filter_speckle * c.filter_speckle
           /\ e.filter_speckle_area \in 1..256
           /\ e.color_precision_loss = 8 - c.color_precision
           /\ e.color_precision_loss \in 0..7
           /\ e.input_path = c.input_path
           /\ e.output_path = c.output_path
           /\ e.color_mode = c.color_mode
           /\ e.hierarchical = c.hierarchical
           /\ e.layer_difference = c.layer_difference
           /\ e.mode = c.mode
           /\ e.length_threshold = c.length_threshold
           /\ e.max_iterations = c.max_iterations
           /\ e.path_precision = c.path_precision
           /\ ~e.overflowed

C5_Witness ==
    /\ pc = "derived"
    /\ Supplied("filter_speckle") /\ TokenOf("filter_speckle") = "16"
    /\ Supplied("color_precision") /\ TokenOf("color_precision") = "3"
    /\ unwrap(converter).filter_speckle_area = 256
    /\ unwrap(converter).color_precision_loss = 5

(***************************************************************************)
(* C6: the kind of failure of a numeric field is determined by the value:  *)
(* a value that is no number of the field's documented type fails with     *)
(* the parser (non-numeric) error, an integer (a float for segment_length) *)
(* outside the range fails with the out-of-range error; negative integers  *)
(* for filter_speckle, documented as integer in [1,16], included.          *)
(***************************************************************************)
IsUnsignedLiteral(t) ==
    LET d == IF Len(t) > 0 /\ Ch(t, 1) = "+" THEN Tail1(t) ELSE t
    IN Len(d) > 0 /\ all_digits(d)

IsIntegerLiteral(t) ==
    LET d == IF Len(t) > 0 /\ Ch(t, 1) \in {"+", "-"} THEN Tail1(t) ELSE t
    IN Len(d) > 0 /\ all_digits(d)

IsDecimalLiteral(t) ==
    LET d == IF Len(t) > 0 /\ Ch(t, 1) \in {"+", "-"} THEN Tail1(t) ELSE t
        p == IndexIn(".", d)
        ip == IF p = 0 THEN d ELSE SubSeq(d, 1, p - 1)
        fp == IF p = 0 THEN "" ELSE SubSeq(d, p + 1, Len(d))
    IN Len(ip) + Len(fp) > 0 /\ all_digits(ip) /\ all_digits(fp)

\* an infinity is a float, one outside every range
IsInfinityLiteral(t) ==
    LET d == IF Len(t) > 0 /\ Ch(t, 1) \in {"+", "-"} THEN Tail1(t) ELSE t
    IN to_ascii_lowercase(d) \in {"inf", "infinity"}

\* t is a number of the documented type of field k
IsNumberOfType(k, t) ==
    CASE k = "segment_length" -> IsDecimalLiteral(t) \/ IsInfinityLiteral(t)
      [] k = "path_precision" -> IsUnsignedLiteral(t)
      [] OTHER -> IsIntegerLiteral(t)

C6_FailureKindDeterminedByValue ==
    \A k \in RangedKeys \cup {"path_precision"} :
        AbortedAt(k) =>
            IF IsNumberOfType(k, trim(TokenOf(k)))
            THEN unwrap(err).class = "Out of Range Error"
            ELSE unwrap(err).class = "Parser Error"

(***************************************************************************)
(* C7: hierarchical and mode are parsed case-insensitively: every          *)
(* spelling of stacked/cutout gives Stacked/Cutout, every spelling of      *)
(* polygon/spline/pixel gives Polygon/Spline/None, and every other token   *)
(* is rejected instead of leaving the previous value.                      *)
(***************************************************************************)
Evaluated(k) == \E i \in 1..Len(evaluated) : evaluated[i] = k

C7_EnumTokensCaseInsensitive ==
    /\ Evaluated("hierarchical") =>
           LET l == to_ascii_lowercase(TokenOf("hierarchical")) IN
           IF l \in {"stacked", "cutout"}
           THEN /\ ~AbortedAt("hierarchical")
                /\ unwrap(config).hierarchical
                       = (IF l = "stacked" THEN "Stacked" ELSE "Cutout")
           ELSE AbortedAt("hierarchical")
    /\ Evaluated("mode") =>
           LET l == to_ascii_lowercase(trim(TokenOf("mode"))) IN
           IF l \in {"polygon", "spline", "pixel"}
           THEN /\ ~AbortedAt("mode")
                /\ unwrap(config).mode
                       = (CASE l = "polygon" -> "Polygon"
                            [] l = "spline" -> "Spline"
                            [] l = "pixel" -> "None")
           ELSE AbortedAt("mode")

(***************************************************************************)
(* C8: color_mode is parsed case-insensitively and never rejected: a       *)
(* token spelling bw in any letter case gives Binary, every other token    *)
(* gives Color, and the result replaces the preset's or default's mode.    *)
(***************************************************************************)
C8_ColorModeAnyCase ==
    Evaluated("color_mode") =>
        /\ ~AbortedAt("color_mode")
        /\ unwrap(config).color_mode
               = (IF to_ascii_lowercase(trim(TokenOf("color_mode"))) = "bw"
                  THEN "Binary" ELSE "Color")

(***************************************************************************)
(* C9: when input or output is absent, construction fails with the         *)
(* missing-required-field error before the preset or any field is          *)
(* evaluated: such a run never ends in another error and yields no Config. *)
(***************************************************************************)
C9_MissingPathFailsFirst ==
    (~PathsSupplied /\ pc # "get_matches") =>
        /\ pc = "aborted"
        /\ unwrap(err).class = "required"
        /\ evaluated = <<>>
        /\ config = None
        /\ ret = None
        /\ converter = None

C9_Witness ==
    /\ pc = "aborted"
    /\ ~Supplied("output")
    /\ Supplied("preset") /\ TokenOf("preset") = "foo"
    /\ Supplied("filter_speckle") /\ TokenOf("filter_speckle") = "0"
    /\ unwrap(err).class = "required"

(***************************************************************************)
(* C10: with several invalid fields supplied, from_args aborts on the      *)
(* first invalid one and no Config is produced.                            *)
(* C10_FirstInSupplyOrder: the error is that of the invalid field that     *)
(* comes first in the order the arguments were supplied.                   *)
(* C10_FirstInCheckOrder: the error is that of the invalid field that      *)
(* comes first in the fixed order of the blocks of from_args (CheckOrder), *)
(* whatever the order of supply; the fields evaluated are the supplied     *)
(* ones up to it in that order, none after it, and nothing is returned.    *)
(***************************************************************************)
\* the check of field k in from_args refuses token t
Rejects(k, t) ==
    CASE k = "preset" -> ~Preset_from_str(t).ok
      [] k = "color_mode" -> FALSE
      [] k = "hierarchical" -> ~Hierarchical_from_str(t).ok
      [] k = "mode" -> trim(t) \notin {"pixel", "polygon", "spline"}
      [] k = "filter_speckle" ->
            LET r == parse_usize(trim(t)) IN ~r.ok \/ filter_speckle_out_of_range(r.val)
      [] k = "color_precision" ->
            LET r == parse_i32(trim(t)) IN ~r.ok \/ color_precision_out_of_range(r.val)
      [] k = "gradient_step" ->
            LET r == parse_i32(trim(t)) IN ~r.ok \/ gradient_step_out_of_range(r.val)
      [] k = "corner_threshold" ->
            LET r == parse_i32(trim(t)) IN ~r.ok \/ corner_threshold_out_of_range(r.val)
      [] k = "segment_length" ->
            LET r == parse_f64(trim(t)) IN ~r.ok \/ segment_length_out_of_range(r.val)
      [] k = "splice_threshold" ->
            LET r == parse_i32(trim(t)) IN ~r.ok \/ splice_threshold_out_of_range(r.val)
      [] k = "path_precision" -> ~parse_u32(trim(t)).ok

InvalidSupplied == {k \in OverrideKeys : Supplied(k) /\ Rejects(k, TokenOf(k))}

SeveralInvalid == PathsSupplied /\ Cardinality(InvalidSupplied) >= 2

ArgvIndex(k) == CHOOSE i \in 1..Len(argv) : argv[i].key = k

FirstSupplied(S) == CHOOSE k \in S : \A j \in S : ArgvIndex(k) <= ArgvIndex(j)

FirstChecked(S) == CHOOSE k \in S : \A j \in S : Pos(k) <= Pos(j)

SuppliedUpTo(f) == SelectSeq(CheckOrder, LAMBDA k : Supplied(k) /\ Pos(k) <= Pos(f))

====
